---------------------------- MODULE Spec2Model ----------------------------
(***************************************************************************)
(* A model of bgp_route_mapper.py: the Nornir pipeline main() runs over    *)
(* the filtered inventory (get_bgp_config, get_route_maps, get_as_path,    *)
(* validate_peer, build_route_map, print_results), with the parsing,       *)
(* peer validation and configuration rendering each task performs.         *)
(*                                                                         *)
(* Text is modelled as a sequence of one-character strings wherever the    *)
(* program parses or formats it (peer IP literals, network literals), so   *)
(* that ipaddress.ip_address and str() are computed, not assumed.          *)
(***************************************************************************)
EXTENDS Integers, Sequences, FiniteSets, TLC

(***************************************************************************)
(* Text helpers: str.split, int(), decimal and hexadecimal formatting.     *)
(***************************************************************************)
Digits == <<"0", "1", "2", "3", "4", "5", "6", "7", "8", "9">>

HexLower == <<"0", "1", "2", "3", "4", "5", "6", "7", "8", "9",
              "a", "b", "c", "d", "e", "f">>

HexUpper == <<"0", "1", "2", "3", "4", "5", "6", "7", "8", "9",
              "A", "B", "C", "D", "E", "F">>

isdigit(c) == \E i \in 1..10 : Digits[i] = c

ishex(c) == \E i \in 1..16 : HexLower[i] = c \/ HexUpper[i] = c

DigitVal(c) == (CHOOSE i \in 1..10 : Digits[i] = c) - 1

HexVal(c) == (CHOOSE i \in 1..16 : HexLower[i] = c \/ HexUpper[i] = c) - 1

RECURSIVE split(_, _)
split(s, sep) ==
    IF \A i \in 1..Len(s) : s[i] # sep
    THEN <<s>>
    ELSE LET i == CHOOSE k \in 1..Len(s) :
                      s[k] = sep /\ \A j \in 1..(k - 1) : s[j] # sep
         IN  <<SubSeq(s, 1, i - 1)>> \o split(SubSeq(s, i + 1, Len(s)), sep)

RECURSIVE join(_, _)
join(parts, sep) ==
    IF Len(parts) = 0 THEN <<>>
    ELSE IF Len(parts) = 1 THEN parts[1]
    ELSE parts[1] \o <<sep>> \o join(Tail(parts), sep)

RECURSIVE int10(_)
int10(s) ==
    IF Len(s) = 0 THEN 0
    ELSE 10 * int10(SubSeq(s, 1, Len(s) - 1)) + DigitVal(s[Len(s)])

RECURSIVE int16(_)
int16(s) ==
    IF Len(s) = 0 THEN 0
    ELSE 16 * int16(SubSeq(s, 1, Len(s) - 1)) + HexVal(s[Len(s)])

RECURSIVE decimal(_)
decimal(n) ==
    IF n < 10 THEN <<Digits[n + 1]>>
    ELSE decimal(n \div 10) \o <<Digits[(n % 10) + 1]>>

RECURSIVE hex(_)
hex(n) ==
    IF n < 16 THEN <<HexLower[n + 1]>>
    ELSE hex(n \div 16) \o <<HexLower[(n % 16) + 1]>>

RECURSIVE pow2(_)
pow2(k) == IF k = 0 THEN 1 ELSE 2 * pow2(k - 1)

(***************************************************************************)
(* ipaddress.ip_address(literal).  An address is a record: version 4 with  *)
(* four octets, version 6 with eight hextets, or version 0 for a literal   *)
(* that is neither (Python raises ValueError).  Addresses are kept as      *)
(* octet/hextet tuples; comparisons and masks are done per element.        *)
(***************************************************************************)
NotAnAddress == [version |-> 0, ip |-> <<>>]

valid_octet(o) ==
    /\ Len(o) > 0
    /\ \A i \in 1..Len(o) : isdigit(o[i])
    /\ Len(o) <= 3
    /\ (o # <<"0">> => o[1] # "0")
    /\ int10(o) <= 255

IPv4Address(s) ==
    LET octets == split(s, ".")
    IN  IF Len(octets) = 4 /\ \A i \in 1..4 : valid_octet(octets[i])
        THEN [version |-> 4, ip |-> [i \in 1..4 |-> int10(octets[i])]]
        ELSE NotAnAddress

valid_hextet(h) ==
    /\ Len(h) > 0
    /\ \A i \in 1..Len(h) : ishex(h[i])
    /\ Len(h) <= 4

\* A dotted-quad tail ("::ffff:1.2.3.4") is parsed as IPv4 and replaced by
\* its two hextets.
IPv6TailParts(parts, v4) ==
    IF v4.version = 4
    THEN SubSeq(parts, 1, Len(parts) - 1)
           \o <<hex(v4.ip[1] * 256 + v4.ip[2]), hex(v4.ip[3] * 256 + v4.ip[4])>>
    ELSE <<>>

IPv6LastPart(parts, last) ==
    IF Len(parts) >= 3 /\ \E i \in 1..Len(last) : last[i] = "."
    THEN IPv6TailParts(parts, IPv4Address(last))
    ELSE parts

IPv6Parts(parts) == IPv6LastPart(parts, parts[Len(parts)])

\* The hextets: hi leading parts, then skipped zero hextets, then lo
\* trailing parts.
IPv6Hextets(parts, n, hi, lo, skipped) ==
    IF \/ skipped < 0
       \/ \E i \in (1..hi) \cup ((n - lo + 1)..n) : ~valid_hextet(parts[i])
    THEN NotAnAddress
    ELSE [version |-> 6,
          ip |-> [i \in 1..8 |->
                    IF i <= hi THEN int16(parts[i])
                    ELSE IF i <= hi + skipped THEN 0
                    ELSE int16(parts[n - lo + (i - hi - skipped)])]]

\* A "::" at index skip: an empty first (last) part is allowed only as
\* part of a leading (trailing) "::".
IPv6Skip(parts, n, hi, lo) ==
    IF \/ (parts[1] = <<>> /\ hi # 0)
       \/ (parts[n] = <<>> /\ lo # 0)
       \/ 8 - (hi + lo) < 1
    THEN NotAnAddress
    ELSE IPv6Hextets(parts, n, hi, lo, 8 - (hi + lo))

IPv6SkipAt(parts, n, skip) ==
    IPv6Skip(parts, n,
             IF parts[1] = <<>> THEN skip - 2 ELSE skip - 1,
             IF parts[n] = <<>> THEN n - skip - 1 ELSE n - skip)

IPv6FromParts(parts, n, skips) ==
    IF n < 3 \/ n > 9 \/ Cardinality(skips) > 1
    THEN NotAnAddress
    ELSE IF skips # {}
    THEN IPv6SkipAt(parts, n, CHOOSE i \in skips : TRUE)
    ELSE IF n # 8 THEN NotAnAddress
    ELSE IPv6Hextets(parts, n, 8, 0, 0)

IPv6SplitParts(parts) ==
    IPv6FromParts(parts, Len(parts), {i \in 2..(Len(parts) - 1) : parts[i] = <<>>})

IPv6Address(s) == IPv6SplitParts(IPv6Parts(split(s, ":")))

\* ip_address tries IPv4Address first, then IPv6Address.
ip_address_or(v4, s) == IF v4.version = 4 THEN v4 ELSE IPv6Address(s)

ip_address(s) == ip_address_or(IPv4Address(s), s)

(***************************************************************************)
(* str(address): dotted decimal for version 4; for version 6 lower-case    *)
(* hextets with the first longest run of two or more zero hextets          *)
(* replaced by "::".                                                       *)
(***************************************************************************)
\* The number of consecutive zero hextets from index i on.
ZeroRun(h, i) ==
    Cardinality({j \in i..8 : \A k \in i..j : h[k] = 0})

compress_run(text, best, len) ==
    IF len > 1
    THEN (IF best = 1 THEN <<<<>>>> ELSE <<>>)
           \o SubSeq(text, 1, best - 1)
           \o <<<<>>>>
           \o SubSeq(text, best + len, 8)
           \o (IF best + len = 9 THEN <<<<>>>> ELSE <<>>)
    ELSE text

compress_at(h, runs, best) ==
    compress_run([i \in 1..8 |-> hex(h[i])], best, runs[best])

compress_best(h, runs) ==
    compress_at(h, runs,
                CHOOSE i \in 1..8 :
                    /\ \A j \in 1..8 : runs[j] <= runs[i]
                    /\ \A j \in 1..(i - 1) : runs[j] < runs[i])

compress_hextets(h) == compress_best(h, [i \in 1..8 |-> ZeroRun(h, i)])

str(a) ==
    IF a.version = 4
    THEN join([i \in 1..4 |-> decimal(a.ip[i])], ".")
    ELSE join(compress_hextets(a.ip), ":")

(***************************************************************************)
(* ipaddress.ip_network(literal) for an IPv4 prefix, and `address in       *)
(* network`: same version and (address AND netmask) = network address.     *)
(***************************************************************************)
MaskBits(prefixlen, i) ==
    IF prefixlen >= 8 * i THEN 8
    ELSE IF prefixlen <= 8 * (i - 1) THEN 0
    ELSE prefixlen - 8 * (i - 1)

MaskOctet(o, bits) == o - (o % pow2(8 - bits))

NotANetwork == [version |-> 0, network_address |-> <<>>, prefixlen |-> 0]

\* strict: the address must have no host bits set.
IPv4Network(addr, prefixlen) ==
    IF /\ addr.version = 4
       /\ prefixlen <= 32
       /\ \A i \in 1..4 : MaskOctet(addr.ip[i], MaskBits(prefixlen, i)) = addr.ip[i]
    THEN [version |-> 4, network_address |-> addr.ip, prefixlen |-> prefixlen]
    ELSE NotANetwork

ip_network_parts(parts) ==
    IF /\ Len(parts) = 2
       /\ Len(parts[2]) > 0
       /\ \A i \in 1..Len(parts[2]) : isdigit(parts[2][i])
    THEN IPv4Network(IPv4Address(parts[1]), int10(parts[2]))
    ELSE NotANetwork

ip_network(s) == ip_network_parts(split(s, "/"))

contains(net, a) ==
    /\ net.version = a.version
    /\ \A i \in 1..4 :
          MaskOctet(a.ip[i], MaskBits(net.prefixlen, i)) = net.network_address[i]

(***************************************************************************)
(* Bounds of the model.                                                    *)
(***************************************************************************)
MaxNeighbors == 2

FleetMaxNeighbors == 1

(***************************************************************************)
(* Peer IP literals as the device prints them.                             *)
(***************************************************************************)
IP_11_11_11_11 == <<"1", "1", ".", "1", "1", ".", "1", "1", ".", "1", "1">>

IP_10_254_254_5 == <<"1", "0", ".", "2", "5", "4", ".", "2", "5", "4", ".", "5">>

IP_10_254_253_5 == <<"1", "0", ".", "2", "5", "4", ".", "2", "5", "3", ".", "5">>

IP_22_22_22_22 == <<"2", "2", ".", "2", "2", ".", "2", "2", ".", "2", "2">>

IP_2001_DB8__1 == <<"2", "0", "0", "1", ":", "D", "B", "8", ":", ":", "1">>

IP_22_22_22 == <<"2", "2", ".", "2", "2", ".", "2", "2">>

PeerLiterals ==
    {IP_11_11_11_11, IP_10_254_254_5, IP_10_254_253_5, IP_22_22_22_22,
     IP_2001_DB8__1, IP_22_22_22}

FleetPeerLiterals == {IP_11_11_11_11, IP_22_22_22_22, IP_22_22_22}

(***************************************************************************)
(* What the parsers hand back.  A Python value that may be a dict or a     *)
(* list carries its type: [type |-> "dict", val |-> record] or             *)
(* [type |-> "list", val |-> sequence].  A dict with optional keys is a    *)
(* function whose DOMAIN is the set of keys present.                       *)
(***************************************************************************)
Dict(v) == [type |-> "dict", val |-> v]

List(v) == [type |-> "list", val |-> v]

NoRouteMapLine == "<no route-map out line>"

RouteMapOutChoices == {NoRouteMapLine, "NONE", "VERIZON_OUT"}

Neighbor(peer, rmo) ==
    IF rmo = NoRouteMapLine
    THEN [peer_ip |-> peer, remote_as |-> "65111"]
    ELSE [peer_ip |-> peer, remote_as |-> "65111", route_map_out |-> rmo]

NeighborRecords(literals, choices) ==
    {Neighbor(p, r) : p \in literals, r \in choices}

\* The neighbors group of one device: records in declaration order, one per
\* peer IP.
NeighborLists(records, maxlen) ==
    {s \in UNION {[1..n -> records] : n \in 0..maxlen} :
        \A i, j \in 1..Len(s) : i # j => s[i].peer_ip # s[j].peer_ip}

\* TTP leaves a group out when nothing matched, gives the bare record for one
\* match and a list for several.
TtpGroup(name, matches) ==
    IF Len(matches) = 0 THEN <<>>
    ELSE IF Len(matches) = 1 THEN [k \in {name} |-> Dict(matches[1])]
    ELSE [k \in {name} |-> List(matches)]

NetworkMatches ==
    <<[network |-> "10.10.192.0", mask |-> "255.255.255.0"],
      [network |-> "10.10.193.0", mask |-> "255.255.255.0"]>>

AggregateMatches ==
    <<[network |-> "10.10.192.0", mask |-> "255.255.240.0"]>>

Merge(f, g) ==
    [k \in (DOMAIN f) \cup (DOMAIN g) |-> IF k \in DOMAIN f THEN f[k] ELSE g[k]]

NetworkGroups ==
    Merge(TtpGroup("networks", NetworkMatches),
          TtpGroup("aggregates", AggregateMatches))

\* The section with its network statements, and, for at most one neighbor,
\* also without any.
BgpOutputs ==
    LET lists == NeighborLists(NeighborRecords(PeerLiterals, RouteMapOutChoices),
                               MaxNeighbors)
    IN  {Merge(TtpGroup("neighbors", ns), NetworkGroups) : ns \in lists}
          \cup {TtpGroup("neighbors", ns) : ns \in {l \in lists : Len(l) <= 1}}

FleetBgpOutputs ==
    {TtpGroup("neighbors", ns) :
        ns \in NeighborLists(NeighborRecords(FleetPeerLiterals, {NoRouteMapLine}),
                             FleetMaxNeighbors)}

fake_route_map ==
    <<[action |-> "deny", match_clauses |-> <<>>, name |-> "DENY_ANY",
       seq |-> "10", set_clauses |-> <<>>],
      [action |-> "permit",
       match_clauses |-> <<"as-path (as-path filter): 1">>,
       name |-> "VERIZON_OUT", seq |-> "10", set_clauses |-> <<>>],
      [action |-> "deny", match_clauses |-> <<>>, name |-> "VERIZON_OUT",
       seq |-> "20", set_clauses |-> <<>>]>>

\* textfsm rows of "show route-map"; no rows when the device has none.
RouteMapOutputs == {<<>>, fake_route_map}

FleetRouteMapOutputs == {fake_route_map}

AsPathRecord(id, pattern) ==
    [as_path_acl |-> id, action |-> "permit", as_path_match |-> pattern]

\* json.loads(parser.result(format='json')[0]) for the as-path template:
\* empty, one match, or several matches wrapped in one more list.
AsPathOutputs ==
    {List(<<>>),
     List(<<List(<<Dict(AsPathRecord("1", "^$")),
                   Dict(AsPathRecord("2", "_65111$"))>>)>>)}

FleetAsPathOutputs == {List(<<Dict(AsPathRecord("1", "^$"))>>)}

Communities == {"100:200", "65000:1"}

Devices == {"r1", "r2"}


(***************************************************************************)
(* State.                                                                  *)
(*   hosts        the inventory after nr.filter(platform="cisco_ios")      *)
(*   stage        which nr.run of main() is in progress (7: all returned,  *)
(*                8: the failed hosts have been printed)                   *)
(*   result       the current run's result per host: Pending, "ok", or     *)
(*                the exception the task raised                            *)
(*   failed_hosts nr.data.failed_hosts                                     *)
(*   host         task.host[...] per host; keys holds the keys set so far  *)
(*   exception    the exception of each host's failed result, kept         *)
(*   ran          the tasks that were started on each host                 *)
(*   parsed       what TTP returned to get_bgp_config on each host, before *)
(*                the task reshapes it                                     *)
(*   printed      the failed hosts printed at the end of main()            *)
(***************************************************************************)
VARIABLES hosts, stage, result, failed_hosts, host, exception, ran, parsed,
          printed

vars ==
    <<hosts, stage, result, failed_hosts, host, exception, ran, parsed, printed>>

Stages ==
    <<"get_bgp_config", "get_route_maps", "get_as_path", "validate_peer",
      "build_route_map", "print_results">>

Pending == "pending"

NotPrinted == {"<not printed>"}

InitFor(hs) ==
    /\ hosts = hs
    /\ stage = 1
    /\ result = [d \in hs |-> Pending]
    /\ failed_hosts = {}
    /\ host \in [hs -> {[community |-> c, keys |-> {"community"},
                         bgp_config |-> <<>>, route_maps |-> <<>>,
                         as_path_acl |-> <<>>, validated_peers |-> <<>>,
                         new_config |-> <<>>] : c \in Communities}]
    /\ exception = [d \in hs |-> ""]
    /\ ran = [d \in hs |-> {}]
    /\ parsed = [d \in hs |-> <<>>]
    /\ printed = NotPrinted

Init == InitFor({"r1"})

InitFleet == InitFor(Devices)

(***************************************************************************)
(* Nornir: nr.run(task) starts the task on every host of the inventory     *)
(* that is not in failed_hosts, each on its own worker; an exception in a  *)
(* task (also a failed sub-task, re-raised as NornirSubTaskError) fails    *)
(* that host's result only, and the hosts that failed are added to         *)
(* failed_hosts when the run returns.                                      *)
(***************************************************************************)
\* Mutant of RunOn: the hosts that failed are started again.
RunOn_failed_too(failed) == hosts

RunOn(failed) == hosts \ failed

Runnable(d, name) ==
    /\ stage <= Len(Stages)
    /\ Stages[stage] = name
    /\ d \in RunOn(failed_hosts)
    /\ result[d] = Pending

\* task.run(task=netmiko_send_command, ...): a failed command raises.
SubTaskResult(sent) == IF sent THEN "ok" ELSE "NornirSubTaskError"

Finish(d, name, outcome, data) ==
    /\ result' = [result EXCEPT ![d] = outcome]
    /\ exception' = [exception EXCEPT ![d] = IF outcome = "ok" THEN @ ELSE outcome]
    /\ ran' = [ran EXCEPT ![d] = @ \cup {name}]
    /\ host' = [host EXCEPT ![d] = data]
    /\ UNCHANGED <<hosts, stage, failed_hosts, printed>>

Set(data, key, value) ==
    [[data EXCEPT ![key] = value] EXCEPT !.keys = @ \cup {key}]

(***************************************************************************)
(* get_bgp_config                                                          *)
(***************************************************************************)
\* Mutant of convert_rogue_dicts: a bare record is left as it is.
convert_rogue_dicts_none(bgp_config) == bgp_config

\* for key, value in bgp_config[0].items(): if type(value) == dict: [value]
convert_rogue_dicts(bgp_config) ==
    [key \in DOMAIN bgp_config |->
        IF bgp_config[key].type = "dict"
        THEN List(<<bgp_config[key].val>>)
        ELSE bgp_config[key]]

\* if 'neighbors' not in bgp_config[0]: bgp_config[0]['neighbors'] = []
add_empty_neighbors(bgp_config) ==
    IF "neighbors" \notin DOMAIN bgp_config
    THEN Merge(bgp_config, [k \in {"neighbors"} |-> List(<<>>)])
    ELSE bgp_config

get_bgp_config(d, outputs) ==
    /\ Runnable(d, "get_bgp_config")
    /\ \E sent \in BOOLEAN, bgp_config \in outputs :
          /\ Finish(d, "get_bgp_config", SubTaskResult(sent),
                    IF sent
                    THEN Set(host[d], "bgp_config",
                             add_empty_neighbors(convert_rogue_dicts(bgp_config)))
                    ELSE host[d])
          /\ parsed' = [parsed EXCEPT ![d] = IF sent THEN bgp_config ELSE @]

(***************************************************************************)
(* get_route_maps                                                          *)
(***************************************************************************)
get_route_maps(d, outputs) ==
    /\ Runnable(d, "get_route_maps")
    /\ \E sent \in BOOLEAN, rows \in outputs :
          Finish(d, "get_route_maps", SubTaskResult(sent),
                 IF sent
                 THEN Set(host[d], "route_maps",
                          IF rows # <<>> THEN rows ELSE <<>>)
                 ELSE host[d])
    /\ UNCHANGED parsed

(***************************************************************************)
(* get_as_path                                                             *)
(***************************************************************************)
\* while type(as_path[0]) == list: as_path = as_path.pop()
RECURSIVE pop_while_list(_)
pop_while_list(as_path) ==
    IF as_path.val[1].type = "list"
    THEN pop_while_list(as_path.val[Len(as_path.val)])
    ELSE as_path

\* if len(as_path) == 0: pass / else: the loop above
unwrap(as_path) ==
    IF Len(as_path.val) = 0 THEN as_path ELSE pop_while_list(as_path)

get_as_path(d, outputs) ==
    /\ Runnable(d, "get_as_path")
    /\ \E sent \in BOOLEAN, as_path \in outputs :
          Finish(d, "get_as_path", SubTaskResult(sent),
                 IF sent
                 THEN Set(host[d], "as_path_acl", unwrap(as_path).val)
                 ELSE host[d])
    /\ UNCHANGED parsed


(***************************************************************************)
(* validate_peer                                                           *)
(***************************************************************************)
\* Mutant of networks: 11.0.0.0/8 is missing from the list.
networks_without_11_8 ==
    <<<<"1", "0", ".", "2", "5", "4", ".", "2", "5", "4", ".", "0", "/", "2", "4">>>>

networks ==
    <<<<"1", "0", ".", "2", "5", "4", ".", "2", "5", "4", ".", "0", "/", "2", "4">>,
      <<"1", "1", ".", "0", ".", "0", ".", "0", "/", "8">>>>

\* for network in networks: if peer_ip in ip_network(network): ... break
exclude_peer(peer_ip) ==
    \E k \in 1..Len(networks) : contains(ip_network(networks[k]), peer_ip)

\* The loop over the neighbors from index i on.  validated is the list built
\* so far; an ill-formed literal raises ValueError and leaves the list as it
\* is at that point.
RECURSIVE validate_from(_, _, _)
\* Mutant of validate_one: an ill-formed literal is skipped like an excluded
\* peer.
validate_one_skips_ill_formed(neighbors, i, validated, peer_ip) ==
    IF peer_ip.version = 0
    THEN validate_from(neighbors, i + 1, validated)
    ELSE IF exclude_peer(peer_ip)
    THEN validate_from(neighbors, i + 1, validated)
    ELSE validate_from(neighbors, i + 1, Append(validated, str(peer_ip)))

\* One pass of the loop body, peer_ip being ip_address(neighbor['peer_ip']).
validate_one(neighbors, i, validated, peer_ip) ==
    IF peer_ip.version = 0
    THEN [validated_peers |-> validated, outcome |-> "ValueError"]
    ELSE IF exclude_peer(peer_ip)
    THEN validate_from(neighbors, i + 1, validated)
    ELSE validate_from(neighbors, i + 1, Append(validated, str(peer_ip)))

validate_from(neighbors, i, validated) ==
    IF i > Len(neighbors)
    THEN [validated_peers |-> validated, outcome |-> "ok"]
    ELSE validate_one(neighbors, i, validated, ip_address(neighbors[i].peer_ip))

validate_peer(d) ==
    /\ Runnable(d, "validate_peer")
    /\ \E r \in {validate_from(host[d].bgp_config["neighbors"].val, 1, <<>>)} :
          Finish(d, "validate_peer", r.outcome,
                 Set(host[d], "validated_peers", r.validated_peers))
    /\ UNCHANGED parsed

(***************************************************************************)
(* build_route_map.  new_config is kept as its lines; a line is a record   *)
(* of the words the f-string puts on it.                                   *)
(***************************************************************************)
Line(kind, name, action, arg, peer) ==
    [kind |-> kind, name |-> name, action |-> action, arg |-> arg, peer |-> peer]

BlankLine == Line("", "", "", "", <<>>)

AsPathAclLine(id, action, pattern) ==
    Line("ip as-path access-list", id, action, pattern, <<>>)

RouteMapLine(name, action, seq) == Line("route-map", name, action, seq, <<>>)

MatchAsPathLine(id) == Line(" match as-path", id, "", "", <<>>)

SetCommunityLine(community) == Line(" set community", "", "", community, <<>>)

RouterBgpLine(asn) == Line("router bgp", asn, "", "", <<>>)

NeighborRouteMapLine(peer_ip, name, direction) ==
    Line(" neighbor route-map", name, "", direction, peer_ip)

\* Mutant of new_route_map_config: the neighbor is bound before the route-map
\* is defined.
new_route_map_config_binding_first(peer_ip, community) ==
    <<BlankLine,
      AsPathAclLine("1", "permit", "^$"),
      RouterBgpLine("65000"),
      NeighborRouteMapLine(peer_ip, "NEW_ROUTE_MAP", "out"),
      RouteMapLine("NEW_ROUTE_MAP", "permit", "10"),
      MatchAsPathLine("1"),
      SetCommunityLine(community),
      RouteMapLine("NEW_ROUTE_MAP", "deny", "20")>>

\* The dedented f-string of the "Create new route-map" branch.
new_route_map_config(peer_ip, community) ==
    <<BlankLine,
      AsPathAclLine("1", "permit", "^$"),
      RouteMapLine("NEW_ROUTE_MAP", "permit", "10"),
      MatchAsPathLine("1"),
      SetCommunityLine(community),
      RouteMapLine("NEW_ROUTE_MAP", "deny", "20"),
      RouterBgpLine("65000"),
      NeighborRouteMapLine(peer_ip, "NEW_ROUTE_MAP", "out")>>

\* if 'route_map_out' not in neighbor: neighbor['route_map_out'] = 'NONE'
default_route_map_out(neighbor) ==
    IF "route_map_out" \notin DOMAIN neighbor
    THEN [k \in (DOMAIN neighbor) \cup {"route_map_out"} |->
              IF k = "route_map_out" THEN "NONE" ELSE neighbor[k]]
    ELSE neighbor

\* Mutant of is_validated: the validated peer check is dropped.
is_validated_any(peer_ip, validated_peers) == TRUE

\* if peer_ip in task.host['validated_peers']
is_validated(peer_ip, validated_peers) ==
    \E i \in 1..Len(validated_peers) : validated_peers[i] = peer_ip

\* Mutant of needs_new_route_map: absence is taken to be the empty string.
needs_new_route_map_if_empty(route_map_out) == route_map_out = ""

\* if route_map_out == "NONE"
needs_new_route_map(route_map_out) == route_map_out = "NONE"

\* What one pass of the loop body appends to new_config for a neighbor; the
\* else branch only prints.
config_for(neighbor, validated_peers, community) ==
    IF /\ is_validated(neighbor.peer_ip, validated_peers)
       /\ needs_new_route_map(neighbor.route_map_out)
    THEN new_route_map_config(neighbor.peer_ip, community)
    ELSE <<>>

RECURSIVE build_from(_, _, _, _)
build_from(neighbors, i, validated_peers, community) ==
    IF i > Len(neighbors) THEN <<>>
    ELSE config_for(default_route_map_out(neighbors[i]), validated_peers, community)
           \o build_from(neighbors, i + 1, validated_peers, community)

\* The loop also stores the defaulted route_map_out in each neighbor record.
build_route_map(d) ==
    /\ Runnable(d, "build_route_map")
    /\ \E neighbors \in {host[d].bgp_config["neighbors"].val} :
          Finish(d, "build_route_map", "ok",
                 Set([host[d] EXCEPT !.bgp_config["neighbors"] =
                         List([i \in 1..Len(neighbors) |->
                                  default_route_map_out(neighbors[i])])],
                     "new_config",
                     build_from(neighbors, 1, host[d].validated_peers,
                                host[d].community)))
    /\ UNCHANGED parsed

(***************************************************************************)
(* print_results, and main()                                               *)
(***************************************************************************)
print_results(d) ==
    /\ Runnable(d, "print_results")
    /\ Finish(d, "print_results", "ok", host[d])
    /\ UNCHANGED parsed

\* nr.run returns once every host it started has a result.
RunReturns ==
    /\ stage <= Len(Stages)
    /\ \A d \in RunOn(failed_hosts) : result[d] # Pending
    /\ failed_hosts' = failed_hosts \cup {d \in hosts : result[d] \notin {Pending, "ok"}}
    /\ result' = [d \in hosts |-> Pending]
    /\ stage' = stage + 1
    /\ UNCHANGED <<hosts, host, exception, ran, parsed, printed>>

\* print(f"\nFailed hosts:\n{nr.data.failed_hosts}\n")
PrintFailedHosts ==
    /\ stage = Len(Stages) + 1
    /\ printed' = failed_hosts
    /\ stage' = stage + 1
    /\ UNCHANGED <<hosts, result, failed_hosts, host, exception, ran, parsed>>

Next ==
    \/ \E d \in hosts : get_bgp_config(d, BgpOutputs)
    \/ \E d \in hosts : get_route_maps(d, RouteMapOutputs)
    \/ \E d \in hosts : get_as_path(d, AsPathOutputs)
    \/ \E d \in hosts : validate_peer(d)
    \/ \E d \in hosts : build_route_map(d)
    \/ \E d \in hosts : print_results(d)
    \/ RunReturns
    \/ PrintFailedHosts

Spec == Init /\ [][Next]_vars

NextFleet ==
    \/ \E d \in hosts : get_bgp_config(d, FleetBgpOutputs)
    \/ \E d \in hosts : get_route_maps(d, FleetRouteMapOutputs)
    \/ \E d \in hosts : get_as_path(d, FleetAsPathOutputs)
    \/ \E d \in hosts : validate_peer(d)
    \/ \E d \in hosts : build_route_map(d)
    \/ \E d \in hosts : print_results(d)
    \/ RunReturns
    \/ PrintFailedHosts

SpecFleet == InitFleet /\ [][NextFleet]_vars


(***************************************************************************)
(* Vocabulary of the properties.                                           *)
(***************************************************************************)
HasKey(d, key) == key \in host[d].keys

Neighbors(d) == host[d].bgp_config["neighbors"].val

\* The neighbor records as TTP matched them, before any task touched them.
ParsedNeighbors(d) ==
    IF "neighbors" \notin DOMAIN parsed[d] THEN <<>>
    ELSE IF parsed[d]["neighbors"].type = "dict"
    THEN <<parsed[d]["neighbors"].val>>
    ELSE parsed[d]["neighbors"].val

WellFormed(literal) == ip_address(literal).version # 0

\* 10.254.254.0/24 and 11.0.0.0/8, stated on the octets.
InExclusionRange(a) ==
    /\ a.version = 4
    /\ \/ a.ip[1] = 11
       \/ (a.ip[1] = 10 /\ a.ip[2] = 254 /\ a.ip[3] = 254)

ExcludedAddress(a) == a.version # 0 /\ InExclusionRange(a)

EligibleAddress(a) == a.version # 0 /\ ~InExclusionRange(a)

Excluded(literal) == ExcludedAddress(ip_address(literal))

Eligible(literal) == EligibleAddress(ip_address(literal))

InSeq(x, seq) == \E i \in 1..Len(seq) : seq[i] = x

\* The loop of validate_peer reaches neighbor i: no ill-formed literal
\* precedes it.
Reached(d, i) == \A j \in 1..(i - 1) : WellFormed(Neighbors(d)[j].peer_ip)

NoRouteMapOut(neighbor) == "route_map_out" \notin DOMAIN neighbor

\* new_config holds, in this order, an AS-path ACL <id> permit ^$, the
\* route-map entry permit 10 with match as-path <id> and set community c,
\* the route-map entry deny 20, and the binding of peer to that route-map.
HasCreateNewBlock(config, peer, c) ==
    \E b \in 1..Len(config) :
        /\ config[b] = NeighborRouteMapLine(peer, config[b].name, "out")
        /\ \E a \in 1..(b - 1) :
            /\ config[a] = AsPathAclLine(config[a].name, "permit", "^$")
            /\ \A k \in (a + 1)..(b - 1) :
                  config[k].kind \notin
                      {"ip as-path access-list", " neighbor route-map"}
            /\ \E p \in (a + 1)..(b - 1) :
                /\ config[p] = RouteMapLine(config[b].name, "permit", "10")
                /\ \E m \in (p + 1)..(b - 1) :
                    /\ config[m] = MatchAsPathLine(config[a].name)
                    /\ \E t \in (m + 1)..(b - 1) :
                        /\ config[t] = SetCommunityLine(c)
                        /\ \E n \in (t + 1)..(b - 1) :
                              config[n] = RouteMapLine(config[b].name, "deny", "20")

NamesPeer(config, peer) == \E k \in 1..Len(config) : config[k].peer = peer


Scenario(d, peer) ==
    /\ HasKey(d, "new_config")
    /\ host[d].community = "100:200"
    /\ Len(ParsedNeighbors(d)) = 1
    /\ ParsedNeighbors(d)[1].peer_ip = peer
    /\ NoRouteMapOut(ParsedNeighbors(d)[1])

\* C2 as stated: in the scenario with neighbor 11.11.11.11, new_config holds
\* the CREATE_NEW block for that peer.
C2_Original ==
    \A d \in hosts :
        Scenario(d, IP_11_11_11_11) =>
            HasCreateNewBlock(host[d].new_config, IP_11_11_11_11, "100:200")

\* C2 as amended: in the scenario with neighbor 11.11.11.11 the peer is
\* excluded (it lies in 11.0.0.0/8), validated_peers and new_config are
\* empty; with a neighbor outside both ranges (22.22.22.22) new_config holds
\* the block, with ACL 1 and route-map NEW_ROUTE_MAP.
C2_Amended ==
    \A d \in hosts :
        /\ Scenario(d, IP_11_11_11_11) =>
              /\ host[d].validated_peers = <<>>
              /\ host[d].new_config = <<>>
        /\ Scenario(d, IP_22_22_22_22) =>
              /\ HasCreateNewBlock(host[d].new_config, IP_22_22_22_22, "100:200")
              /\ InSeq(AsPathAclLine("1", "permit", "^$"), host[d].new_config)
              /\ InSeq(NeighborRouteMapLine(IP_22_22_22_22, "NEW_ROUTE_MAP", "out"),
                       host[d].new_config)

C2_Witness ==
    \E d \in hosts : Scenario(d, IP_11_11_11_11) /\ stage = Len(Stages) + 2

(***************************************************************************)
(* C3: after build_route_map, every eligible peer (well-formed, outside    *)
(* both ranges) whose record has no outbound route-map has its CREATE_NEW  *)
(* block in new_config, in order, with the host's community.               *)
(***************************************************************************)
C3_EligiblePeerGetsBlock ==
    \A d \in hosts :
        HasKey(d, "new_config") =>
            \A i \in 1..Len(ParsedNeighbors(d)) :
                (/\ Eligible(ParsedNeighbors(d)[i].peer_ip)
                 /\ NoRouteMapOut(ParsedNeighbors(d)[i]))
                  => HasCreateNewBlock(host[d].new_config,
                                       ParsedNeighbors(d)[i].peer_ip,
                                       host[d].community)

(***************************************************************************)
(* C4: after build_route_map, no line of new_config names a peer that      *)
(* lies inside an exclusion range.                                         *)
(***************************************************************************)
C4_ExcludedPeerNotConfigured ==
    \A d \in hosts :
        HasKey(d, "new_config") =>
            \A i \in 1..Len(Neighbors(d)) :
                \/ host[d].new_config = <<>>
                \/ ~Excluded(Neighbors(d)[i].peer_ip)
                \/ /\ ~NamesPeer(host[d].new_config, Neighbors(d)[i].peer_ip)
                   /\ ~NamesPeer(host[d].new_config,
                                 str(ip_address(Neighbors(d)[i].peer_ip)))

C4_Witness ==
    \E d \in hosts :
        /\ HasKey(d, "new_config")
        /\ host[d].new_config # <<>>
        /\ \E i \in 1..Len(ParsedNeighbors(d)) :
              /\ Excluded(ParsedNeighbors(d)[i].peer_ip)
              /\ NoRouteMapOut(ParsedNeighbors(d)[i])

ExistingAclIds(d) ==
    {host[d].as_path_acl[i].val.as_path_acl : i \in 1..Len(host[d].as_path_acl)}

ExistingRouteMapNames(d) ==
    {host[d].route_maps[i].name : i \in 1..Len(host[d].route_maps)}

(***************************************************************************)
(* C5: the AS-path ACL ids and route-map names build_route_map defines     *)
(* are not ids or names the device already has, and no two blocks of one   *)
(* pass define the same id or name.  (build_route_map never raises, so a   *)
(* collision is not reported either.)                                      *)
(***************************************************************************)
C5_NoCollision ==
    \A d \in hosts :
        HasKey(d, "new_config") =>
            LET config == host[d].new_config
                acls   == {k \in 1..Len(config) :
                              config[k].kind = "ip as-path access-list"}
                binds  == {k \in 1..Len(config) :
                              config[k].kind = " neighbor route-map"}
            IN  /\ \A k \in acls : config[k].name \notin ExistingAclIds(d)
                /\ \A k \in binds : config[k].name \notin ExistingRouteMapNames(d)
                /\ \A k, l \in acls : k # l => config[k].name # config[l].name
                /\ \A k, l \in binds : k # l => config[k].name # config[l].name

CarriesCommunity(d, name) ==
    \E i \in 1..Len(host[d].route_maps) :
        /\ host[d].route_maps[i].name = name
        /\ host[d].route_maps[i].set_clauses # <<>>

(***************************************************************************)
(* C6: after build_route_map, a validated peer whose outbound route-map    *)
(* exists in route_maps without an entry setting the community has         *)
(* rendered configuration in new_config.                                   *)
(***************************************************************************)
C6_AddEntryRendered ==
    \A d \in hosts :
        HasKey(d, "new_config") =>
            \A i \in 1..Len(Neighbors(d)) :
                (/\ InSeq(Neighbors(d)[i].peer_ip, host[d].validated_peers)
                 /\ Neighbors(d)[i].route_map_out \in ExistingRouteMapNames(d)
                 /\ ~CarriesCommunity(d, Neighbors(d)[i].route_map_out))
                  => NamesPeer(host[d].new_config, Neighbors(d)[i].peer_ip)


AllTasks == {Stages[k] : k \in 1..Len(Stages)}

HasIllFormed(d) ==
    \E i \in 1..Len(Neighbors(d)) : ~WellFormed(Neighbors(d)[i].peer_ip)

(***************************************************************************)
(* C7: when validate_peer meets an ill-formed peer literal it raises       *)
(* ValueError: the host's result carries it and the host joins             *)
(* failed_hosts, the literal is not in validated_peers, build_route_map    *)
(* never runs on that host, and every other host that did not fail itself  *)
(* still runs all six tasks.                                               *)
(***************************************************************************)
C7_IllFormedPeerRaises ==
    \A d \in hosts :
        (HasKey(d, "validated_peers") /\ HasIllFormed(d)) =>
            /\ exception[d] = "ValueError"
            /\ result[d] = "ValueError" \/ d \in failed_hosts
            /\ \A i \in 1..Len(Neighbors(d)) :
                  ~WellFormed(Neighbors(d)[i].peer_ip) =>
                      ~InSeq(Neighbors(d)[i].peer_ip, host[d].validated_peers)
            /\ "build_route_map" \notin ran[d]
            /\ stage > Len(Stages) =>
                  \A e \in hosts \ {d} :
                      exception[e] = "" =>
                          HasKey(e, "new_config") /\ ran[e] = AllTasks

C7_Witness ==
    \E d, e \in hosts :
        /\ d # e
        /\ HasKey(d, "validated_peers") /\ HasIllFormed(d)
        /\ exception[d] = "ValueError"
        /\ HasKey(e, "new_config")
        /\ printed = {d}

StageKeys ==
    <<"bgp_config", "route_maps", "as_path_acl", "validated_peers", "new_config">>

(***************************************************************************)
(* C8: a host whose command fails in get_bgp_config, get_route_maps or     *)
(* get_as_path has run the tasks up to that one and no later one, and      *)
(* holds only what the earlier tasks stored; it is in failed_hosts once    *)
(* that run has returned.  Every host that did not fail has run all six    *)
(* tasks and has its new_config, and the hosts printed at the end are      *)
(* exactly those that failed.                                              *)
(***************************************************************************)
C8_FailureIsolated ==
    \A d \in hosts :
        /\ exception[d] = "NornirSubTaskError" =>
              \E m \in 1..3 :
                  /\ ran[d] = {Stages[k] : k \in 1..m}
                  /\ host[d].keys = {"community"} \cup {StageKeys[k] : k \in 1..(m - 1)}
                  /\ stage > m => d \in failed_hosts
        /\ (stage > Len(Stages) /\ exception[d] = "") =>
              HasKey(d, "new_config") /\ ran[d] = AllTasks
        /\ printed # NotPrinted => printed = {e \in hosts : exception[e] # ""}

C8_Witness ==
    \E d, e \in hosts :
        /\ exception[d] = "NornirSubTaskError"
        /\ ran[d] = {"get_bgp_config", "get_route_maps"}
        /\ exception[e] = ""
        /\ HasKey(e, "new_config")
        /\ host[e].new_config # <<>>
        /\ printed = {d}

(***************************************************************************)
(* C9: the bgp_config get_bgp_config stores always has the key neighbors,  *)
(* and every group in it is a list: the empty list when no neighbor        *)
(* matched, a one-element list when TTP returned a bare record, and the    *)
(* groups TTP returned, no more and no fewer, besides neighbors.           *)
(***************************************************************************)
C9_GroupsAreLists ==
    \A d \in hosts :
        HasKey(d, "bgp_config") =>
            /\ "neighbors" \in DOMAIN host[d].bgp_config
            /\ \A key \in DOMAIN host[d].bgp_config :
                  host[d].bgp_config[key].type = "list"
            /\ DOMAIN host[d].bgp_config = (DOMAIN parsed[d]) \cup {"neighbors"}
            /\ "neighbors" \notin DOMAIN parsed[d] => Neighbors(d) = <<>>
            /\ \A key \in DOMAIN parsed[d] :
                  IF parsed[d][key].type = "dict"
                  THEN Len(host[d].bgp_config[key].val) = 1
                  ELSE Len(host[d].bgp_config[key].val) = Len(parsed[d][key].val)
            /\ \A key \in (DOMAIN parsed[d]) \ {"neighbors"} :
                  parsed[d][key].type = "dict" =>
                      host[d].bgp_config[key].val[1] = parsed[d][key].val

C9_Witness ==
    \E d \in hosts :
        /\ HasKey(d, "bgp_config")
        /\ "neighbors" \notin DOMAIN parsed[d]
        /\ "aggregates" \in DOMAIN parsed[d]
        /\ parsed[d]["aggregates"].type = "dict"

(***************************************************************************)
(* C10: for a neighbor whose peer_ip is in validated_peers, new_config     *)
(* holds the CREATE_NEW block exactly when the record TTP returned has no  *)
(* route_map_out or has route_map_out = "NONE"; for any other              *)
(* route_map_out no line of new_config names the peer.                     *)
(***************************************************************************)
C10_CreateNewIffNone ==
    \A d \in hosts :
        HasKey(d, "new_config") =>
            \A i \in 1..Len(ParsedNeighbors(d)) :
                InSeq(ParsedNeighbors(d)[i].peer_ip, host[d].validated_peers) =>
                    IF \/ NoRouteMapOut(ParsedNeighbors(d)[i])
                       \/ ParsedNeighbors(d)[i].route_map_out = "NONE"
                    THEN HasCreateNewBlock(host[d].new_config,
                                           ParsedNeighbors(d)[i].peer_ip,
                                           host[d].community)
                    ELSE ~NamesPeer(host[d].new_config,
                                    ParsedNeighbors(d)[i].peer_ip)

C10_Witness ==
    \E d \in hosts :
        /\ HasKey(d, "new_config")
        /\ \E i, j \in 1..Len(ParsedNeighbors(d)) :
              /\ InSeq(ParsedNeighbors(d)[i].peer_ip, host[d].validated_peers)
              /\ ~NoRouteMapOut(ParsedNeighbors(d)[i])
              /\ ParsedNeighbors(d)[i].route_map_out = "NONE"
              /\ InSeq(ParsedNeighbors(d)[j].peer_ip, host[d].validated_peers)
              /\ ~NoRouteMapOut(ParsedNeighbors(d)[j])
              /\ ParsedNeighbors(d)[j].route_map_out = "VERIZON_OUT"
              /\ NamesPeer(host[d].new_config, ParsedNeighbors(d)[i].peer_ip)

=============================================================================
